---- MODULE Spec2Model ----
(***************************************************************************)
(* A model of src/main.py: the table layout helper                         *)
(* create_table_for_syllabary and the slide sequence emitted by main.       *)
(*                                                                         *)
(* Python floats are IEEE-754 binary64.  The layout arithmetic is modelled  *)
(* bit-exactly for positive normal numbers and zero: a float is a record    *)
(* [m, e] of value m * 2^e, where m is a 53-bit significand held as four    *)
(* little-endian limbs in base 2^15, and every operation rounds to nearest, *)
(* ties to even.  Infinities, NaN, subnormals and negative numbers do not   *)
(* arise for the inputs drawn here and are not modelled.                    *)
(*                                                                         *)
(* Characters outside ASCII are written by their code points: the string   *)
(* "U3042" stands for HIRAGANA LETTER A, "U0B95U0BBF" for the two code      *)
(* points of the Tamil syllable ki.                                        *)
(***************************************************************************)
EXTENDS Integers, Sequences, FiniteSets, TLC

(***************************************************************************)
(* Natural numbers of arbitrary size: little-endian sequences of limbs.     *)
(***************************************************************************)
\* The limb base 2^15: a product of two limbs plus a carry fits a 32-bit integer.
Base == 32768
\* Bits in a limb.
LimbBits == 15
\* Significand bits of binary64.
Precision == 53

RECURSIVE Pow2(_)
Pow2(k) ==
    IF k = 0 THEN 1 ELSE 2 * Pow2(k - 1)

Limb(a, i) ==
    IF i <= Len(a) THEN a[i] ELSE 0

RECURSIVE BTrim(_)
\* Drop the high zero limbs.
BTrim(a) ==
    IF Len(a) > 0 /\ a[Len(a)] = 0 THEN BTrim(SubSeq(a, 1, Len(a) - 1)) ELSE a

BIsZero(a) ==
    \A i \in 1..Len(a) : a[i] = 0

RECURSIVE BAddFrom(_, _, _, _)
BAddFrom(a, b, i, c) ==
    IF i > Len(a) /\ i > Len(b)
    THEN (IF c = 0 THEN <<>> ELSE <<c>>)
    ELSE LET x == Limb(a, i) + Limb(b, i) + c
         IN  <<x % Base>> \o BAddFrom(a, b, i + 1, x \div Base)

BAdd(a, b) ==
    BAddFrom(a, b, 1, 0)

RECURSIVE BSubFrom(_, _, _, _)
\* a - b for a >= b; the borrow c is 0 or -1.
BSubFrom(a, b, i, c) ==
    IF i > Len(a)
    THEN <<>>
    ELSE LET x == Limb(a, i) - Limb(b, i) + c
         IN  <<x % Base>> \o BSubFrom(a, b, i + 1, x \div Base)

BSub(a, b) ==
    BTrim(BSubFrom(a, b, 1, 0))

RECURSIVE BCmpFrom(_, _, _)
\* Compare limbs i, i-1, ..., 1 of a and b: -1, 0 or 1.
BCmpFrom(a, b, i) ==
    IF i = 0 THEN 0
    ELSE IF Limb(a, i) < Limb(b, i) THEN -1
    ELSE IF Limb(a, i) > Limb(b, i) THEN 1
    ELSE BCmpFrom(a, b, i - 1)

BCmp(a, b) ==
    BCmpFrom(a, b, IF Len(a) > Len(b) THEN Len(a) ELSE Len(b))

RECURSIVE BMulSmallFrom(_, _, _, _)
\* a * d for one limb d.
BMulSmallFrom(a, d, i, c) ==
    IF i > Len(a)
    THEN (IF c = 0 THEN <<>> ELSE <<c>>)
    ELSE LET x == a[i] * d + c
         IN  <<x % Base>> \o BMulSmallFrom(a, d, i + 1, x \div Base)

BMulSmall(a, d) ==
    BMulSmallFrom(a, d, 1, 0)

Zeros(n) ==
    [i \in 1..n |-> 0]

RECURSIVE BMulFrom(_, _, _)
BMulFrom(a, b, j) ==
    IF j > Len(b)
    THEN <<>>
    ELSE BAdd(Zeros(j - 1) \o BMulSmall(a, b[j]), BMulFrom(a, b, j + 1))

BMul(a, b) ==
    BTrim(BMulFrom(a, b, 1))

\* a * 2^k.
BShl(a, k) ==
    BTrim(Zeros(k \div LimbBits) \o BMulSmall(a, Pow2(k % LimbBits)))

RECURSIVE BDivSmallFrom(_, _, _, _)
\* floor(a / d) for one limb d, from the high limb i down, r the running remainder.
BDivSmallFrom(a, d, i, r) ==
    IF i = 0
    THEN <<>>
    ELSE LET x == r * Base + a[i]
         IN  BDivSmallFrom(a, d, i - 1, x % d) \o <<x \div d>>

\* floor(a / 2^k).
BShr(a, k) ==
    LET q == k \div LimbBits
        hi == IF q >= Len(a) THEN <<>> ELSE SubSeq(a, q + 1, Len(a))
    IN  BTrim(BDivSmallFrom(hi, Pow2(k % LimbBits), Len(hi), 0))

\* Whether a mod 2^k is not zero.
BLowBits(a, k) ==
    LET q == k \div LimbBits
    IN  \/ \E i \in 1..q : Limb(a, i) # 0
        \/ Limb(a, q + 1) % Pow2(k % LimbBits) # 0

RECURSIVE IntBits(_)
\* Bits of a non-negative integer.
IntBits(n) ==
    IF n = 0 THEN 0 ELSE 1 + IntBits(n \div 2)

\* Bits of a.
BitLen(a) ==
    LET t == BTrim(a)
    IN  IF Len(t) = 0 THEN 0 ELSE LimbBits * (Len(t) - 1) + IntBits(t[Len(t)])

\* The limbs of a small non-negative integer.
BFromInt(n) ==
    BTrim(<<n % Base, n \div Base>>)

(***************************************************************************)
(* binary64 values and the operations the program applies to them.          *)
(***************************************************************************)
\* Four limbs hold a significand.
Pad4(a) ==
    [i \in 1..4 |-> Limb(a, i)]

FZero ==
    [m |-> Zeros(4), e |-> 0]

FIsZero(x) ==
    BIsZero(x.m)

\* The float nearest to n * 2^e (n > 0, a natural number), ties to even.  sticky
\* tells that the exact value lies strictly above n * 2^e and below (n+1) * 2^e.
FRound(n, e, sticky) ==
    LET bits == BitLen(n)
        k == bits - Precision
    IN  IF k <= 0
        THEN [m |-> Pad4(BShl(n, -k)), e |-> e + k]
        ELSE LET q == BShr(n, k)
                 guard == Limb(BShr(n, k - 1), 1) % 2 = 1
                 rest == sticky \/ BLowBits(n, k - 1)
                 odd == Limb(q, 1) % 2 = 1
                 up == guard /\ (rest \/ odd)
                 r == IF up THEN BAdd(q, <<1>>) ELSE q
             IN  IF BitLen(r) > Precision
                 THEN [m |-> Pad4(BShr(r, 1)), e |-> e + k + 1]
                 ELSE [m |-> Pad4(r), e |-> e + k]

\* float(n) for an int n >= 0 below 2^30.
FromInt(n) ==
    IF n = 0 THEN FZero ELSE FRound(BFromInt(n), 0, FALSE)

\* x * y
FMul(x, y) ==
    IF FIsZero(x) \/ FIsZero(y)
    THEN FZero
    ELSE FRound(BMul(x.m, y.m), x.e + y.e, FALSE)

\* x < y, x = y, x > y as -1, 0, 1.
FCmp(x, y) ==
    IF FIsZero(x) THEN (IF FIsZero(y) THEN 0 ELSE -1)
    ELSE IF FIsZero(y) THEN 1
    ELSE IF x.e < y.e THEN -1
    ELSE IF x.e > y.e THEN 1
    ELSE BCmpFrom(x.m, y.m, 4)

FLt(x, y) == FCmp(x, y) < 0
FLe(x, y) == FCmp(x, y) <= 0
FGt(x, y) == FCmp(x, y) > 0

\* x + y
FAdd(x, y) ==
    IF FIsZero(x) THEN y
    ELSE IF FIsZero(y) THEN x
    ELSE LET e == IF x.e < y.e THEN x.e ELSE y.e
         IN  FRound(BAdd(BShl(x.m, x.e - e), BShl(y.m, y.e - e)), e, FALSE)

\* x - y for x >= y
FSub(x, y) ==
    IF FIsZero(y) THEN x
    ELSE IF FCmp(x, y) = 0 THEN FZero
    ELSE LET e == IF x.e < y.e THEN x.e ELSE y.e
         IN  FRound(BSub(BShl(x.m, x.e - e), BShl(y.m, y.e - e)), e, FALSE)

\* Quotient bits produced by the long division: four limbs.
QuotBits == 60

\* r >= d on four limbs.
Ge4(r, d) ==
    IF r[4] # d[4] THEN r[4] > d[4]
    ELSE IF r[3] # d[3] THEN r[3] > d[3]
    ELSE IF r[2] # d[2] THEN r[2] > d[2]
    ELSE r[1] >= d[1]

\* 2 * (r - d) on four limbs, for d <= r < 2d.
SubDbl4(r, d) ==
    LET x1 == 2 * (r[1] - d[1])
        x2 == 2 * (r[2] - d[2]) + (x1 \div Base)
        x3 == 2 * (r[3] - d[3]) + (x2 \div Base)
        x4 == 2 * (r[4] - d[4]) + (x3 \div Base)
    IN  <<x1 % Base, x2 % Base, x3 % Base, x4 % Base>>

RECURSIVE DivLimb(_, _, _, _)
\* Restoring division, one limb of the quotient: n more bits of r / d, the high
\* bit first, for r < 2d.  The result is the remainder left, doubled n times along
\* the way, and the bits as a number.
DivLimb(r, d, n, acc) ==
    IF n = 0
    THEN [r |-> r, q |-> acc]
    ELSE IF Ge4(r, d)
         THEN DivLimb(SubDbl4(r, d), d, n - 1, 2 * acc + 1)
         ELSE DivLimb(SubDbl4(r, Zeros(4)), d, n - 1, 2 * acc)

\* x / y for y # 0: the 60-bit quotient floor(x.m * 2^59 / y.m), rounded.
FDiv(x, y) ==
    IF FIsZero(x)
    THEN FZero
    ELSE LET s4 == DivLimb(x.m, y.m, LimbBits, 0)
             s3 == DivLimb(s4.r, y.m, LimbBits, 0)
             s2 == DivLimb(s3.r, y.m, LimbBits, 0)
             s1 == DivLimb(s2.r, y.m, LimbBits, 0)
         IN  FRound(BTrim(<<s1.q, s2.q, s3.q, s4.q>>), x.e - y.e - (QuotBits - 1),
                    ~BIsZero(s1.r))

\* The float a decimal literal n / d denotes (d a power of ten): both are exact
\* floats, and the correctly rounded quotient is the float nearest to the literal.
Dec(n, d) ==
    FDiv(FromInt(n), FromInt(d))

(***************************************************************************)
(* The program's data (main.py, sections 1 to 4).                           *)
(***************************************************************************)
\* Hard-coded slide dimensions in inches (16:9).
SLIDE_WIDTH_INCHES == Dec(13333, 1000)
SLIDE_HEIGHT_INCHES == Dec(75, 10)

\* The four tables, row by row; "" is a cell left empty.
HIRAGANA_TABLE ==
    <<<<"U3042", "U304B", "U3055", "U305F", "U306A", "U306F", "U307E", "U3084", "U3089", "U308F">>,
      <<"U3044", "U304D", "U3057", "U3061", "U306B", "U3072", "U307F", "", "U308A", "">>,
      <<"U3046", "U304F", "U3059", "U3064", "U306C", "U3075", "U3080", "U3086", "U308B", "">>,
      <<"U3048", "U3051", "U305B", "U3066", "U306D", "U3078", "U3081", "", "U308C", "">>,
      <<"U304A", "U3053", "U305D", "U3068", "U306E", "U307B", "U3082", "U3088", "U308D", "U3092">> >>

HIRAGANA_N == "U3093"

KATAKANA_TABLE ==
    <<<<"U30A2", "U30AB", "U30B5", "U30BF", "U30CA", "U30CF", "U30DE", "U30E4", "U30E9", "U30EF">>,
      <<"U30A4", "U30AD", "U30B7", "U30C1", "U30CB", "U30D2", "U30DF", "", "U30EA", "">>,
      <<"U30A6", "U30AF", "U30B9", "U30C4", "U30CC", "U30D5", "U30E0", "U30E6", "U30EB", "">>,
      <<"U30A8", "U30B1", "U30BB", "U30C6", "U30CD", "U30D8", "U30E1", "", "U30EC", "">>,
      <<"U30AA", "U30B3", "U30BD", "U30C8", "U30CE", "U30DB", "U30E2", "U30E8", "U30ED", "U30F2">> >>

KATAKANA_N == "U30F3"

HIRAGANA_DAKUTEN_TABLE ==
    <<<<"U304C", "U304E", "U3050", "U3052", "U3054">>,
      <<"U3056", "U3058", "U305A", "U305C", "U305E">>,
      <<"U3060", "U3062", "U3065", "U3067", "U3069">>,
      <<"U3070", "U3073", "U3076", "U3079", "U307C">>,
      <<"U3071", "U3074", "U3077", "U307A", "U307D">> >>

KATAKANA_DAKUTEN_TABLE ==
    <<<<"U30AC", "U30AE", "U30B0", "U30B2", "U30B4">>,
      <<"U30B6", "U30B8", "U30BA", "U30BC", "U30BE">>,
      <<"U30C0", "U30C2", "U30C5", "U30C7", "U30C9">>,
      <<"U30D0", "U30D3", "U30D6", "U30D9", "U30DC">>,
      <<"U30D1", "U30D4", "U30D7", "U30DA", "U30DD">> >>

\* The dict literal as its items <<label, romaji, tamil>>, in source order.
MapItems ==
    <<<<"U3042", "A", "U0B85">>, <<"U304B", "Ka", "U0B95">>, <<"U3055", "Sa", "U0B9A">>,
      <<"U305F", "Ta", "U0BA4">>, <<"U306A", "Na", "U0BA8">>, <<"U306F", "Ha", "U0BB9">>,
      <<"U307E", "Ma", "U0BAE">>, <<"U3084", "Ya", "U0BAF">>, <<"U3089", "Ra", "U0BB1">>,
      <<"U308F", "Wa", "U0BB5">>, <<"U3044", "I", "U0B87">>, <<"U304D", "Ki", "U0B95U0BBF">>,
      <<"U3057", "Shi", "U0B9AU0BBF">>, <<"U3061", "Chi", "U0BA4U0BBF">>, <<"U306B", "Ni", "U0BA8U0BBF">>,
      <<"U3072", "Hi", "U0BB9U0BBF">>, <<"U307F", "Mi", "U0BAEU0BBF">>, <<"U308A", "Ri", "U0BB1U0BBF">>,
      <<"U3046", "U", "U0B89">>, <<"U304F", "Ku", "U0B95U0BC1">>, <<"U3059", "Su", "U0B9AU0BC1">>,
      <<"U3064", "Tsu", "U0BA4U0BC1">>, <<"U306C", "Nu", "U0BA8U0BC1">>, <<"U3075", "Fu", "U0BB9U0BC1">>,
      <<"U3080", "Mu", "U0BAEU0BC1">>, <<"U3086", "Yu", "U0BAFU0BC1">>, <<"U308B", "Ru", "U0BB1U0BC1">>,
      <<"U3048", "E", "U0B8E">>, <<"U3051", "Ke", "U0B95U0BC7">>, <<"U305B", "Se", "U0B9AU0BC6">>,
      <<"U3066", "Te", "U0BA4U0BC7">>, <<"U306D", "Ne", "U0BA8U0BC7">>, <<"U3078", "He", "U0BB9U0BC7">>,
      <<"U3081", "Me", "U0BAEU0BC7">>, <<"U308C", "Re", "U0BB1U0BC7">>, <<"U304A", "O", "U0B92">>,
      <<"U3053", "Ko", "U0B95U0BCA">>, <<"U305D", "So", "U0B9AU0BCA">>, <<"U3068", "To", "U0BA4U0BCA">>,
      <<"U306E", "No", "U0BA8U0BCA">>, <<"U307B", "Ho", "U0BB9U0BCA">>, <<"U3082", "Mo", "U0BAEU0BCA">>,
      <<"U3088", "Yo", "U0BAFU0BCA">>, <<"U308D", "Ro", "U0BB1U0BCA">>, <<"U3092", "Wo", "U0BB5U0BCA">>,
      <<"U3093", "N", "U0BA9U0BCD">>, <<"U30A2", "A", "U0B85">>, <<"U30AB", "Ka", "U0B95">>,
      <<"U30B5", "Sa", "U0B9A">>, <<"U30BF", "Ta", "U0BA4">>, <<"U30CA", "Na", "U0BA8">>,
      <<"U30CF", "Ha", "U0BB9">>, <<"U30DE", "Ma", "U0BAE">>, <<"U30E4", "Ya", "U0BAF">>,
      <<"U30E9", "Ra", "U0BB1">>, <<"U30EF", "Wa", "U0BB5">>, <<"U30A4", "I", "U0B87">>,
      <<"U30AD", "Ki", "U0B95U0BBF">>, <<"U30B7", "Shi", "U0B9AU0BBF">>, <<"U30C1", "Chi", "U0BA4U0BBF">>,
      <<"U30CB", "Ni", "U0BA8U0BBF">>, <<"U30D2", "Hi", "U0BB9U0BBF">>, <<"U30DF", "Mi", "U0BAEU0BBF">>,
      <<"U30EA", "Ri", "U0BB1U0BBF">>, <<"U30A6", "U", "U0B89">>, <<"U30AF", "Ku", "U0B95U0BC1">>,
      <<"U30B9", "Su", "U0B9AU0BC1">>, <<"U30C4", "Tsu", "U0BA4U0BC1">>, <<"U30CC", "Nu", "U0BA8U0BC1">>,
      <<"U30D5", "Fu", "U0BB9U0BC1">>, <<"U30E0", "Mu", "U0BAEU0BC1">>, <<"U30E6", "Yu", "U0BAFU0BC1">>,
      <<"U30EB", "Ru", "U0BB1U0BC1">>, <<"U30A8", "E", "U0B8E">>, <<"U30B1", "Ke", "U0B95U0BC7">>,
      <<"U30BB", "Se", "U0B9AU0BC6">>, <<"U30C6", "Te", "U0BA4U0BC7">>, <<"U30CD", "Ne", "U0BA8U0BC7">>,
      <<"U30D8", "He", "U0BB9U0BC7">>, <<"U30E1", "Me", "U0BAEU0BC7">>, <<"U30EC", "Re", "U0BB1U0BC7">>,
      <<"U30AA", "O", "U0B92">>, <<"U30B3", "Ko", "U0B95U0BCA">>, <<"U30BD", "So", "U0B9AU0BCA">>,
      <<"U30C8", "To", "U0BA4U0BCA">>, <<"U30CE", "No", "U0BA8U0BCA">>, <<"U30DB", "Ho", "U0BB9U0BCA">>,
      <<"U30E2", "Mo", "U0BAEU0BCA">>, <<"U30E8", "Yo", "U0BAFU0BCA">>, <<"U30ED", "Ro", "U0BB1U0BCA">>,
      <<"U30F2", "Wo", "U0BB5U0BCA">>, <<"U30F3", "N", "U0BA9U0BCD">>, <<"U304C", "Ga", "U0B95">>,
      <<"U304E", "Gi", "U0B95U0BBF">>, <<"U3050", "Gu", "U0B95U0BC1">>, <<"U3052", "Ge", "U0B95U0BC7">>,
      <<"U3054", "Go", "U0B95U0BCA">>, <<"U3056", "Za", "U0B9A">>, <<"U3058", "Ji", "U0B9AU0BBF">>,
      <<"U305A", "Zu", "U0B9AU0BC1">>, <<"U305C", "Ze", "U0B9AU0BC7">>, <<"U305E", "Zo", "U0B9AU0BCA">>,
      <<"U3060", "Da", "U0BA4">>, <<"U3062", "Ji", "U0BA4U0BBF">>, <<"U3065", "Zu", "U0BA4U0BC1">>,
      <<"U3067", "De", "U0BA4U0BC7">>, <<"U3069", "Do", "U0BA4U0BCA">>, <<"U3070", "Ba", "U0BAA">>,
      <<"U3073", "Bi", "U0BAAU0BBF">>, <<"U3076", "Bu", "U0BAAU0BC1">>, <<"U3079", "Be", "U0BAAU0BC7">>,
      <<"U307C", "Bo", "U0BAAU0BCA">>, <<"U3071", "Pa", "U0BAA">>, <<"U3074", "Pi", "U0BAAU0BBF">>,
      <<"U3077", "Pu", "U0BAAU0BC1">>, <<"U307A", "Pe", "U0BAAU0BC7">>, <<"U307D", "Po", "U0BAAU0BCA">>,
      <<"U30AC", "Ga", "U0B95">>, <<"U30AE", "Gi", "U0B95U0BBF">>, <<"U30B0", "Gu", "U0B95U0BC1">>,
      <<"U30B2", "Ge", "U0B95U0BC7">>, <<"U30B4", "Go", "U0B95U0BCA">>, <<"U30B6", "Za", "U0B9A">>,
      <<"U30B8", "Ji", "U0B9AU0BBF">>, <<"U30BA", "Zu", "U0B9AU0BC1">>, <<"U30BC", "Ze", "U0B9AU0BC7">>,
      <<"U30BE", "Zo", "U0B9AU0BCA">>, <<"U30C0", "Da", "U0BA4">>, <<"U30C2", "Ji", "U0BA4U0BBF">>,
      <<"U30C5", "Zu", "U0BA4U0BC1">>, <<"U30C7", "De", "U0BA4U0BC7">>, <<"U30C9", "Do", "U0BA4U0BCA">>,
      <<"U30D0", "Ba", "U0BAA">>, <<"U30D3", "Bi", "U0BAAU0BBF">>, <<"U30D6", "Bu", "U0BAAU0BC1">>,
      <<"U30D9", "Be", "U0BAAU0BC7">>, <<"U30DC", "Bo", "U0BAAU0BCA">>, <<"U30D1", "Pa", "U0BAA">>,
      <<"U30D4", "Pi", "U0BAAU0BBF">>, <<"U30D7", "Pu", "U0BAAU0BC1">>, <<"U30DA", "Pe", "U0BAAU0BC7">>,
      <<"U30DD", "Po", "U0BAAU0BCA">> >>

GOJUON_SERIES ==
    <<[series_name |-> "A Series", hira_list |-> <<"U3042", "U3044", "U3046", "U3048", "U304A">>,
       kata_list |-> <<"U30A2", "U30A4", "U30A6", "U30A8", "U30AA">>],
      [series_name |-> "Ka Series", hira_list |-> <<"U304B", "U304D", "U304F", "U3051", "U3053">>,
       kata_list |-> <<"U30AB", "U30AD", "U30AF", "U30B1", "U30B3">>],
      [series_name |-> "Sa Series", hira_list |-> <<"U3055", "U3057", "U3059", "U305B", "U305D">>,
       kata_list |-> <<"U30B5", "U30B7", "U30B9", "U30BB", "U30BD">>],
      [series_name |-> "Ta Series", hira_list |-> <<"U305F", "U3061", "U3064", "U3066", "U3068">>,
       kata_list |-> <<"U30BF", "U30C1", "U30C4", "U30C6", "U30C8">>],
      [series_name |-> "Na Series", hira_list |-> <<"U306A", "U306B", "U306C", "U306D", "U306E">>,
       kata_list |-> <<"U30CA", "U30CB", "U30CC", "U30CD", "U30CE">>],
      [series_name |-> "Ha Series", hira_list |-> <<"U306F", "U3072", "U3075", "U3078", "U307B">>,
       kata_list |-> <<"U30CF", "U30D2", "U30D5", "U30D8", "U30DB">>],
      [series_name |-> "Ma Series", hira_list |-> <<"U307E", "U307F", "U3080", "U3081", "U3082">>,
       kata_list |-> <<"U30DE", "U30DF", "U30E0", "U30E1", "U30E2">>],
      [series_name |-> "Ya Series", hira_list |-> <<"U3084", "U3086", "U3088">>,
       kata_list |-> <<"U30E4", "U30E6", "U30E8">>],
      [series_name |-> "Ra Series", hira_list |-> <<"U3089", "U308A", "U308B", "U308C", "U308D">>,
       kata_list |-> <<"U30E9", "U30EA", "U30EB", "U30EC", "U30ED">>],
      [series_name |-> "Wa/N Series", hira_list |-> <<"U308F", "U3092", "U3093">>,
       kata_list |-> <<"U30EF", "U30F2", "U30F3">>] >>

DAKUTEN_SERIES ==
    <<[series_name |-> "Ga Series", hira_list |-> <<"U304C", "U304E", "U3050", "U3052", "U3054">>,
       kata_list |-> <<"U30AC", "U30AE", "U30B0", "U30B2", "U30B4">>],
      [series_name |-> "Za Series", hira_list |-> <<"U3056", "U3058", "U305A", "U305C", "U305E">>,
       kata_list |-> <<"U30B6", "U30B8", "U30BA", "U30BC", "U30BE">>],
      [series_name |-> "Da Series", hira_list |-> <<"U3060", "U3062", "U3065", "U3067", "U3069">>,
       kata_list |-> <<"U30C0", "U30C2", "U30C5", "U30C7", "U30C9">>],
      [series_name |-> "Ba Series", hira_list |-> <<"U3070", "U3073", "U3076", "U3079", "U307C">>,
       kata_list |-> <<"U30D0", "U30D3", "U30D6", "U30D9", "U30DC">>],
      [series_name |-> "Pa Series", hira_list |-> <<"U3071", "U3074", "U3077", "U307A", "U307D">>,
       kata_list |-> <<"U30D1", "U30D4", "U30D7", "U30DA", "U30DD">>] >>

\* ROMAJI_TAMIL_MAP: label -> <<romaji, tamil>>.
ROMAJI_TAMIL_MAP ==
    [c \in {MapItems[n][1] : n \in 1..Len(MapItems)} |->
        LET n == CHOOSE n \in 1..Len(MapItems) : MapItems[n][1] = c
        IN  <<MapItems[n][2], MapItems[n][3]>>]

\* dict.get(key, default)
Get(map, key, default) ==
    IF key \in DOMAIN map THEN map[key] ELSE default

(***************************************************************************)
(* create_table_for_syllabary, block by block.  A frame is the record of    *)
(* the call's parameters and of the locals assigned so far; err is the      *)
(* exception raised, "none" while there is none, and a frame that raised    *)
(* is left as it is by the blocks that follow.                              *)
(***************************************************************************)
\* The parameters of a call, with the defaults of the signature.
DefaultTop == FromInt(1)
DefaultLeft == Dec(5, 10)
DefaultColWidth == FromInt(1)
DefaultRowHeight == Dec(12, 10)
DefaultFontMain == 30
DefaultFontSub == 14

Call(table_data, slide_title, top, left, col_width, row_height, font_main, font_sub) ==
    [table_data |-> table_data, slide_title |-> slide_title, top |-> top,
     left |-> left, col_width |-> col_width, row_height |-> row_height,
     font_main |-> font_main, font_sub |-> font_sub, shapes |-> <<>>,
     err |-> "none"]

\* max() of a collection of ints: ValueError on an empty one.
PyMax(S) ==
    IF S = {}
    THEN [err |-> "ValueError", v |-> 0]
    ELSE [err |-> "none", v |-> CHOOSE x \in S : \A y \in S : y <= x]

\* ColsOf without its guard: cols = max(len(r) for r in table_data).
ColsOfUnguarded(table_data, rows) ==
    PyMax({Len(table_data[r]) : r \in 1..Len(table_data)})

\* cols = max(len(r) for r in table_data) if rows > 0 else 0
ColsOf(table_data, rows) ==
    IF rows > 0
    THEN PyMax({Len(table_data[r]) : r \in 1..Len(table_data)})
    ELSE [err |-> "none", v |-> 0]

\* The literals of the function's body.
TitleHeight == Dec(5, 10)
TableTopOffset == Dec(7, 10)
MarginW == FromInt(1)
MarginH == Dec(15, 10)

\* Lines 157-175: the slide size, rows and cols, and the title text box, which is
\* as wide as the table asked for (before any scaling) and 0.5 high.
Title(f) ==
    LET rows == Len(f.table_data)
        cols == ColsOf(f.table_data, rows)
        title_shape ==
            [type |-> "textbox", left |-> f.left, top |-> f.top,
             width |-> FMul(f.col_width, FromInt(cols.v)), height |-> TitleHeight,
             text |-> f.slide_title, alignment |-> "CENTER",
             size |-> f.font_main + 6, bold |-> TRUE]
    IN  IF f.err # "none" THEN f
        ELSE IF cols.err # "none" THEN [f EXCEPT !.err = cols.err]
        ELSE [slide_width_in |-> SLIDE_WIDTH_INCHES,
              slide_height_in |-> SLIDE_HEIGHT_INCHES,
              rows |-> rows, cols |-> cols.v] @@
             [f EXCEPT !.shapes = Append(@, title_shape)]

\* Position with the table at the title's top: table_top = top.
PositionAtTitle(f) ==
    IF f.err # "none" THEN f
    ELSE [table_top |-> f.top,
          table_left |-> f.left,
          table_width |-> FMul(f.col_width, FromInt(f.cols)),
          table_height |-> FMul(f.row_height, FromInt(f.rows))] @@ f

\* Lines 177-181: the table starts 0.7 below the title's top.
Position(f) ==
    IF f.err # "none" THEN f
    ELSE [table_top |-> FAdd(f.top, TableTopOffset),
          table_left |-> f.left,
          table_width |-> FMul(f.col_width, FromInt(f.cols)),
          table_height |-> FMul(f.row_height, FromInt(f.rows))] @@ f

\* x / y: ZeroDivisionError for y = 0.
PyDiv(x, y) ==
    IF FIsZero(y)
    THEN [err |-> "ZeroDivisionError", v |-> FZero]
    ELSE [err |-> "none", v |-> FDiv(x, y)]

\* ScaleWidth without its block: the width is never scaled.
ScaleWidthNever(f) ==
    IF f.err # "none" THEN f
    ELSE [margin_w |-> MarginW, available_w |-> FSub(f.slide_width_in, MarginW)] @@ f

\* ScaleWidth without its test: the width is scaled to the available one, fit or not.
ScaleWidthAlways(f) ==
    IF f.err # "none" THEN f
    ELSE LET margin_w == MarginW
             available_w == FSub(f.slide_width_in, margin_w)
             g == [margin_w |-> margin_w, available_w |-> available_w] @@ f
             scale_factor == PyDiv(available_w, f.table_width)
             col_width == FMul(f.col_width, scale_factor.v)
         IN  IF scale_factor.err # "none"
             THEN [g EXCEPT !.err = scale_factor.err]
             ELSE [scale_factor |-> scale_factor.v] @@
                  [g EXCEPT !.col_width = col_width,
                            !.table_width = FMul(col_width, FromInt(f.cols))]

\* ScaleWidth without line 189: table_width is not recomputed.
ScaleWidthStale(f) ==
    IF f.err # "none" THEN f
    ELSE LET margin_w == MarginW
             available_w == FSub(f.slide_width_in, margin_w)
             g == [margin_w |-> margin_w, available_w |-> available_w] @@ f
         IN  IF FGt(f.table_width, available_w)
             THEN LET scale_factor == PyDiv(available_w, f.table_width)
                      col_width == FMul(f.col_width, scale_factor.v)
                  IN  IF scale_factor.err # "none"
                      THEN [g EXCEPT !.err = scale_factor.err]
                      ELSE [scale_factor |-> scale_factor.v] @@
                           [g EXCEPT !.col_width = col_width]
             ELSE g

\* Lines 183-189: shrink the columns if the table is too wide.
ScaleWidth(f) ==
    IF f.err # "none" THEN f
    ELSE LET margin_w == MarginW
             available_w == FSub(f.slide_width_in, margin_w)
             g == [margin_w |-> margin_w, available_w |-> available_w] @@ f
         IN  IF FGt(f.table_width, available_w)
             THEN LET scale_factor == PyDiv(available_w, f.table_width)
                      col_width == FMul(f.col_width, scale_factor.v)
                  IN  IF scale_factor.err # "none"
                      THEN [g EXCEPT !.err = scale_factor.err]
                      ELSE [scale_factor |-> scale_factor.v] @@
                           [g EXCEPT !.col_width = col_width,
                                     !.table_width = FMul(col_width, FromInt(f.cols))]
             ELSE g

\* ScaleHeight keeping the cells' proportions: the rows are first scaled by the
\* factor the columns were scaled by.
ScaleHeightCoupled(f) ==
    IF f.err # "none" THEN f
    ELSE LET margin_h == MarginH
             available_h == FSub(f.slide_height_in, margin_h)
             row0 == IF "scale_factor" \in DOMAIN f
                     THEN FMul(f.row_height, f.scale_factor)
                     ELSE f.row_height
             height0 == FMul(row0, FromInt(f.rows))
             g == [margin_h |-> margin_h, available_h |-> available_h] @@
                  [f EXCEPT !.row_height = row0, !.table_height = height0]
         IN  IF FGt(height0, available_h)
             THEN LET scale_factor_h == PyDiv(available_h, height0)
                      row_height == FMul(row0, scale_factor_h.v)
                  IN  IF scale_factor_h.err # "none"
                      THEN [g EXCEPT !.err = scale_factor_h.err]
                      ELSE [scale_factor_h |-> scale_factor_h.v] @@
                           [g EXCEPT !.row_height = row_height,
                                     !.table_height = FMul(row_height, FromInt(f.rows))]
             ELSE g

\* Lines 191-197: shrink the rows if the table is too high.
ScaleHeight(f) ==
    IF f.err # "none" THEN f
    ELSE LET margin_h == MarginH
             available_h == FSub(f.slide_height_in, margin_h)
             g == [margin_h |-> margin_h, available_h |-> available_h] @@ f
         IN  IF FGt(f.table_height, available_h)
             THEN LET scale_factor_h == PyDiv(available_h, f.table_height)
                      row_height == FMul(f.row_height, scale_factor_h.v)
                  IN  IF scale_factor_h.err # "none"
                      THEN [g EXCEPT !.err = scale_factor_h.err]
                      ELSE [scale_factor_h |-> scale_factor_h.v] @@
                           [g EXCEPT !.row_height = row_height,
                                     !.table_height = FMul(row_height, FromInt(f.rows))]
             ELSE g

\* Lines 199-213: the table's frame at (table_left, table_top), and the uniform
\* column widths and row heights.  add_table is the library's; it is taken to
\* make the frame it is asked for.  A cell is the sequence of the paragraphs the
\* program gives it, none to begin with.
AddTable(f) ==
    IF f.err # "none" THEN f
    ELSE LET table ==
                 [type |-> "table", rows |-> f.rows, cols |-> f.cols,
                  left |-> f.table_left, top |-> f.table_top,
                  width |-> f.table_width, height |-> f.table_height,
                  columns |-> [c \in 1..f.cols |-> f.col_width],
                  row_heights |-> [r \in 1..f.rows |-> f.row_height],
                  cells |-> [r \in 1..f.rows |-> [c \in 1..f.cols |-> <<>>]]]
         IN  [f EXCEPT !.shapes = Append(@, table)]

\* Lines 227-241: the two paragraphs of a cell that shows a character: the
\* character, and the smaller line f"{romaji}  |  {tamil}".
CellParagraphs(map, char, font_main, font_sub) ==
    LET rt == Get(map, char, <<"", "">>)
    IN  << [text |-> char, size |-> font_main, bold |-> TRUE],
           [text |-> rt[1] \o "  |  " \o rt[2], size |-> font_sub, bold |-> FALSE] >>

\* Lines 215-241: fill each cell of each row of table_data; a cell of an empty
\* string gets the text "" and no paragraph.
FillCells(f, map) ==
    IF f.err # "none" THEN f
    ELSE LET n == Len(f.shapes)
             filled ==
                 [r \in 1..f.rows |-> [c \in 1..f.cols |->
                     IF c <= Len(f.table_data[r]) /\ f.table_data[r][c] # ""
                     THEN CellParagraphs(map, f.table_data[r][c], f.font_main,
                                         f.font_sub)
                     ELSE <<>>]]
         IN  [f EXCEPT !.shapes[n].cells = filled]

\* The whole call.
CreateTable(f, map) ==
    FillCells(AddTable(ScaleHeight(ScaleWidth(Position(Title(f))))), map)

(***************************************************************************)
(* The inputs of the calls checked on their own: grids of up to MaxRows     *)
(* rows and MaxCols columns and the program's four tables, cell sizes that   *)
(* fit and that overflow either axis, and the anchors the program uses.     *)
(***************************************************************************)
MaxRows == 3
MaxCols == 3

\* A label that ROMAJI_TAMIL_MAP does not hold (U+4E00).
UnknownLabel == "U4E00"

\* A grid of r rows, the odd rows c cells long and the even rows one shorter,
\* holding in turn a mapped label, an empty cell and an unmapped label.
TestGrid(r, c) ==
    [i \in 1..r |->
        [j \in 1..(IF i % 2 = 1 \/ c = 0 THEN c ELSE c - 1) |->
            CASE (i + j) % 3 = 2 -> HIRAGANA_TABLE[1][1]
              [] (i + j) % 3 = 0 -> ""
              [] OTHER -> UnknownLabel]]

Grids ==
    {TestGrid(r, c) : r \in 0..MaxRows, c \in 0..MaxCols}
        \cup {HIRAGANA_TABLE, KATAKANA_TABLE, HIRAGANA_DAKUTEN_TABLE,
              KATAKANA_DAKUTEN_TABLE}

\* Requested cell sizes in tenths of an inch: the default 1.0 and main's 1.1, the
\* specification's 1.5, and sizes that overflow the slide with a few columns.
ColWidthTenths == {10, 11, 15, 42, 48}
\* The default 1.2 and main's 1.0, and sizes that overflow with a few rows.
RowHeightTenths == {10, 12, 28, 33}

\* <<top, left>>: the defaults of the signature and main's two call sites.
Anchors ==
    {<<DefaultTop, DefaultLeft>>, <<Dec(5, 10), Dec(5, 10)>>,
     <<Dec(5, 10), Dec(7, 10)>>}

Inputs ==
    {Call(g, "Overview", a[1], a[2], Dec(w, 10), Dec(h, 10), DefaultFontMain,
          DefaultFontSub) :
        g \in Grids, a \in Anchors, w \in ColWidthTenths, h \in RowHeightTenths}

(***************************************************************************)
(* State.                                                                  *)
(***************************************************************************)
VARIABLES
    pc,      \* the position in create_table_for_syllabary, or in main
    args,    \* the frame a call of create_table_for_syllabary started with
    frame,   \* its frame now
    ret,     \* where main called it from, "none" for a call checked on its own
    romaji_tamil_map,  \* the module's ROMAJI_TAMIL_MAP
    prs,     \* main's presentation: the slides added, each the sequence of its shapes
    saved,   \* how many times main saved the presentation
    series,  \* main's position in the series list it is looping over
    i        \* main's index into the series' character lists (from 1)

vars == <<pc, args, frame, ret, romaji_tamil_map, prs, saved, series, i>>

mainVars == <<ret, prs, saved, series, i>>

(***************************************************************************)
(* One call of create_table_for_syllabary, a block at a time.               *)
(***************************************************************************)
LayoutInit ==
    /\ args \in Inputs
    /\ frame = args
    /\ pc = "title"
    /\ ret = "none"
    /\ romaji_tamil_map = ROMAJI_TAMIL_MAP
    /\ prs = <<>>
    /\ saved = 0
    /\ series = 1
    /\ i = 1

\* After a block: on to the next one, unless the block raised.
Goto(f, next) ==
    IF f.err = "none" THEN next ELSE "raised"

StepTitle ==
    /\ pc = "title"
    /\ frame' = Title(frame)
    /\ pc' = Goto(frame', "position")
    /\ UNCHANGED <<args, romaji_tamil_map, mainVars>>

StepPosition ==
    /\ pc = "position"
    /\ frame' = Position(frame)
    /\ pc' = Goto(frame', "scale_width")
    /\ UNCHANGED <<args, romaji_tamil_map, mainVars>>

StepScaleWidth ==
    /\ pc = "scale_width"
    /\ frame' = ScaleWidth(frame)
    /\ pc' = Goto(frame', "scale_height")
    /\ UNCHANGED <<args, romaji_tamil_map, mainVars>>

StepScaleHeight ==
    /\ pc = "scale_height"
    /\ frame' = ScaleHeight(frame)
    /\ pc' = Goto(frame', "add_table")
    /\ UNCHANGED <<args, romaji_tamil_map, mainVars>>

StepAddTable ==
    /\ pc = "add_table"
    /\ frame' = AddTable(frame)
    /\ pc' = Goto(frame', "fill_cells")
    /\ UNCHANGED <<args, romaji_tamil_map, mainVars>>

StepFillCells ==
    /\ pc = "fill_cells"
    /\ frame' = FillCells(frame, romaji_tamil_map)
    /\ pc' = Goto(frame', "returned")
    /\ UNCHANGED <<args, romaji_tamil_map, mainVars>>

LayoutNext ==
    \/ StepTitle
    \/ StepPosition
    \/ StepScaleWidth
    \/ StepScaleHeight
    \/ StepAddTable
    \/ StepFillCells

SpecLayout == LayoutInit /\ [][LayoutNext]_vars

(***************************************************************************)
(* main (lines 279-440).                                                    *)
(***************************************************************************)
\* create_centered_textbox (lines 243-274).  The geometry is given in tenths of
\* an inch, as main's literals have it: <<left, top, width, height>>.
CenteredTextbox(text, geometry, font_size, bold) ==
    [type |-> "textbox", text |-> text, geometry |-> geometry,
     font_size |-> font_size, bold |-> bold, alignment |-> "CENTER",
     vertical_anchor |-> "MIDDLE", color |-> <<0, 0, 0>>]

\* " ".join(list)
RECURSIVE Join(_)
Join(list) ==
    IF Len(list) = 0 THEN ""
    ELSE IF Len(list) = 1 THEN list[1]
    ELSE list[1] \o " " \o Join(Tail(list))

\* The four table slides' calls (lines 289-296, 306-313, 323-330, 334-341).
MainTop == Dec(5, 10)
MainLeft == Dec(5, 10)
MainLeftDakuten == Dec(7, 10)
MainColWidth == Dec(11, 10)
MainRowHeight == FromInt(1)

TableCalls ==
    << Call(HIRAGANA_TABLE, "Hiragana (U3072U3089U304CU306A) Overview",
            MainTop, MainLeft, MainColWidth, MainRowHeight, 32, 14),
       Call(KATAKANA_TABLE, "Katakana (U30ABU30BFU30ABU30CA) Overview",
            MainTop, MainLeft, MainColWidth, MainRowHeight, 32, 14),
       Call(HIRAGANA_DAKUTEN_TABLE, "Hiragana Dakuten/Handakuten",
            MainTop, MainLeftDakuten, MainColWidth, MainRowHeight, 32, 14),
       Call(KATAKANA_DAKUTEN_TABLE, "Katakana Dakuten/Handakuten",
            MainTop, MainLeftDakuten, MainColWidth, MainRowHeight, 32, 14) >>

\* The text box of the lone n beside the first two tables (lines 297-302, 314-319).
NBox(n) ==
    CenteredTextbox(n \o "\nN | U0BA9U0BCD", <<110, 55, 12, 10>>, 24, FALSE)

\* Lines 346-363: a series' overview slide.
GojuonOverviewSlide(se) ==
    << CenteredTextbox(se.series_name, <<20, 10, 80, 10>>, 60, TRUE),
       CenteredTextbox("Hiragana: " \o Join(se.hira_list) \o "\nKatakana: "
                           \o Join(se.kata_list),
                       <<20, 30, 80, 20>>, 36, FALSE) >>

\* GojuonFocusSlide with the smaller line made of the katakana's pair.
GojuonFocusSlideOfKatakana(map, h, k) ==
    LET kata == Get(map, k, <<"", "">>)
        romaji_k == kata[1]
        tamil_k == kata[2]
    IN  << CenteredTextbox(h \o "    " \o k, <<30, 20, 70, 15>>, 120, TRUE),
           CenteredTextbox(romaji_k \o " | " \o tamil_k, <<30, 40, 70, 10>>, 50,
                           FALSE) >>

\* Lines 369-388: a character's focus slide.  Both pairs are looked up; the
\* smaller line is made of the hiragana's.
GojuonFocusSlide(map, h, k) ==
    LET hira == Get(map, h, <<"", "">>)
        kata == Get(map, k, <<"", "">>)
        romaji_h == hira[1]
        tamil_h == hira[2]
        romaji_k == kata[1]
        tamil_k == kata[2]
    IN  << CenteredTextbox(h \o "    " \o k, <<30, 20, 70, 15>>, 120, TRUE),
           CenteredTextbox(romaji_h \o " | " \o tamil_h, <<30, 40, 70, 10>>, 50,
                           FALSE) >>

\* Lines 393-410.
DakutenOverviewSlide(se) ==
    << CenteredTextbox(se.series_name, <<20, 10, 80, 10>>, 60, TRUE),
       CenteredTextbox("Hiragana: " \o Join(se.hira_list) \o "\nKatakana: "
                           \o Join(se.kata_list),
                       <<20, 30, 80, 20>>, 36, FALSE) >>

\* Lines 416-435.
DakutenFocusSlide(map, h, k) ==
    LET hira == Get(map, h, <<"", "">>)
        kata == Get(map, k, <<"", "">>)
        romaji_h == hira[1]
        tamil_h == hira[2]
        romaji_k == kata[1]
        tamil_k == kata[2]
    IN  << CenteredTextbox(h \o "    " \o k, <<30, 20, 70, 15>>, 120, TRUE),
           CenteredTextbox(romaji_h \o " | " \o tamil_h, <<30, 40, 70, 10>>, 50,
                           FALSE) >>

\* The labels of the two scripts.
LabelsOf(table) ==
    {table[r][c] : r \in 1..Len(table), c \in 1..Len(table[1])} \ {""}

HiraganaLabels ==
    LabelsOf(HIRAGANA_TABLE) \cup LabelsOf(HIRAGANA_DAKUTEN_TABLE) \cup {HIRAGANA_N}

KatakanaLabels ==
    LabelsOf(KATAKANA_TABLE) \cup LabelsOf(KATAKANA_DAKUTEN_TABLE) \cup {KATAKANA_N}

\* The mappings main is run with: the source's, and the source's with the entries
\* of a script removed ("absent") or, for katakana, replaced by another pair
\* ("other").
OtherPair == <<"Xx", "U0B83">>

MapVariant(hira_mode, kata_mode) ==
    [c \in {c \in DOMAIN ROMAJI_TAMIL_MAP :
               /\ ~(c \in HiraganaLabels /\ hira_mode = "absent")
               /\ ~(c \in KatakanaLabels /\ kata_mode = "absent")} |->
        IF c \in KatakanaLabels /\ kata_mode = "other"
        THEN OtherPair
        ELSE ROMAJI_TAMIL_MAP[c]]

MapVariants ==
    {MapVariant(hm, km) : hm \in {"source", "absent"},
                          km \in {"source", "absent", "other"}}

\* No call of create_table_for_syllabary is in progress.
NoFrame == [err |-> "none"]

Init ==
    /\ pc = "slide1"
    /\ romaji_tamil_map \in MapVariants
    /\ prs = <<>>
    /\ saved = 0
    /\ series = 1
    /\ i = 1
    /\ args = NoFrame
    /\ frame = NoFrame
    /\ ret = "none"

\* A table slide, first half: the blank slide is added and
\* create_table_for_syllabary is called with it.
TableSlideCall(at, n) ==
    /\ pc = at
    /\ prs' = Append(prs, <<>>)
    /\ args' = TableCalls[n]
    /\ frame' = TableCalls[n]
    /\ ret' = at
    /\ pc' = "title"
    /\ UNCHANGED <<romaji_tamil_map, saved, series, i>>

\* Second half: the call returned, the slide holds the shapes it made, and main
\* adds those in more.  (A call that raised ends main: pc stays "raised".)
TableSlideReturn(at, more, next) ==
    /\ pc = "returned"
    /\ ret = at
    /\ prs' = [prs EXCEPT ![Len(prs)] = frame.shapes \o more]
    /\ ret' = "none"
    /\ pc' = next
    /\ UNCHANGED <<args, frame, romaji_tamil_map, saved, series, i>>

\* Lines 287-302.
Slide1 == TableSlideCall("slide1", 1)
Slide1Done == TableSlideReturn("slide1", <<NBox(HIRAGANA_N)>>, "slide2")
\* Lines 304-319.
Slide2 == TableSlideCall("slide2", 2)
Slide2Done == TableSlideReturn("slide2", <<NBox(KATAKANA_N)>>, "slide3")
\* Lines 321-330.
Slide3 == TableSlideCall("slide3", 3)
Slide3Done == TableSlideReturn("slide3", <<>>, "slide4")
\* Lines 332-341.
Slide4 == TableSlideCall("slide4", 4)
Slide4Done == TableSlideReturn("slide4", <<>>, "gojuon")

\* Lines 344-363: the next series' overview slide.
GojuonOverview ==
    /\ pc = "gojuon"
    /\ series <= Len(GOJUON_SERIES)
    /\ prs' = Append(prs, GojuonOverviewSlide(GOJUON_SERIES[series]))
    /\ i' = 1
    /\ pc' = "gojuon_focus"
    /\ UNCHANGED <<args, frame, ret, romaji_tamil_map, saved, series>>

\* GojuonFocus with the katakana one place further: kata_list[i + 1].
GojuonFocusOffByOne ==
    /\ pc = "gojuon_focus"
    /\ LET se == GOJUON_SERIES[series]
       IN  /\ i <= Len(se.hira_list)
           /\ IF i + 1 <= Len(se.kata_list)
              THEN /\ prs' = Append(prs, GojuonFocusSlide(romaji_tamil_map,
                                                         se.hira_list[i],
                                                         se.kata_list[i + 1]))
                   /\ i' = i + 1
                   /\ pc' = pc
              ELSE /\ pc' = "raised"
                   /\ UNCHANGED <<prs, i>>
    /\ UNCHANGED <<args, frame, ret, romaji_tamil_map, saved, series>>

\* Lines 366-388: the focus slide of character i; kata_list[i] raises IndexError
\* past the end of kata_list.
GojuonFocus ==
    /\ pc = "gojuon_focus"
    /\ LET se == GOJUON_SERIES[series]
       IN  /\ i <= Len(se.hira_list)
           /\ IF i <= Len(se.kata_list)
              THEN /\ prs' = Append(prs, GojuonFocusSlide(romaji_tamil_map,
                                                         se.hira_list[i],
                                                         se.kata_list[i]))
                   /\ i' = i + 1
                   /\ pc' = pc
              ELSE /\ pc' = "raised"
                   /\ UNCHANGED <<prs, i>>
    /\ UNCHANGED <<args, frame, ret, romaji_tamil_map, saved, series>>

\* The inner loop is over: the next series.
GojuonSeriesDone ==
    /\ pc = "gojuon_focus"
    /\ i > Len(GOJUON_SERIES[series].hira_list)
    /\ series' = series + 1
    /\ pc' = "gojuon"
    /\ UNCHANGED <<args, frame, ret, romaji_tamil_map, prs, saved, i>>

\* The first loop is over.
GojuonDone ==
    /\ pc = "gojuon"
    /\ series > Len(GOJUON_SERIES)
    /\ series' = 1
    /\ pc' = "dakuten"
    /\ UNCHANGED <<args, frame, ret, romaji_tamil_map, prs, saved, i>>

\* Lines 391-410.
DakutenOverview ==
    /\ pc = "dakuten"
    /\ series <= Len(DAKUTEN_SERIES)
    /\ prs' = Append(prs, DakutenOverviewSlide(DAKUTEN_SERIES[series]))
    /\ i' = 1
    /\ pc' = "dakuten_focus"
    /\ UNCHANGED <<args, frame, ret, romaji_tamil_map, saved, series>>

\* Lines 413-435.
DakutenFocus ==
    /\ pc = "dakuten_focus"
    /\ LET se == DAKUTEN_SERIES[series]
       IN  /\ i <= Len(se.hira_list)
           /\ IF i <= Len(se.kata_list)
              THEN /\ prs' = Append(prs, DakutenFocusSlide(romaji_tamil_map,
                                                          se.hira_list[i],
                                                          se.kata_list[i]))
                   /\ i' = i + 1
                   /\ pc' = pc
              ELSE /\ pc' = "raised"
                   /\ UNCHANGED <<prs, i>>
    /\ UNCHANGED <<args, frame, ret, romaji_tamil_map, saved, series>>

DakutenSeriesDone ==
    /\ pc = "dakuten_focus"
    /\ i > Len(DAKUTEN_SERIES[series].hira_list)
    /\ series' = series + 1
    /\ pc' = "dakuten"
    /\ UNCHANGED <<args, frame, ret, romaji_tamil_map, prs, saved, i>>

DakutenDone ==
    /\ pc = "dakuten"
    /\ series > Len(DAKUTEN_SERIES)
    /\ pc' = "save"
    /\ UNCHANGED <<args, frame, ret, romaji_tamil_map, prs, saved, series, i>>

\* Lines 437-440.
Save ==
    /\ pc = "save"
    /\ saved' = saved + 1
    /\ pc' = "done"
    /\ UNCHANGED <<args, frame, ret, romaji_tamil_map, prs, series, i>>

Next ==
    \/ Slide1
    \/ Slide1Done
    \/ Slide2
    \/ Slide2Done
    \/ Slide3
    \/ Slide3Done
    \/ Slide4
    \/ Slide4Done
    \/ LayoutNext
    \/ GojuonOverview
    \/ GojuonFocus
    \/ GojuonSeriesDone
    \/ GojuonDone
    \/ DakutenOverview
    \/ DakutenFocus
    \/ DakutenSeriesDone
    \/ DakutenDone
    \/ Save

Spec == Init /\ [][Next]_vars

(***************************************************************************)
(* What the claims are stated with.                                        *)
(***************************************************************************)
\* canvas_width - width_margin = 13.333 - 1.0 and canvas_height - height_margin
\* = 7.5 - 1.5, as floats.
AvailableW == FSub(SLIDE_WIDTH_INCHES, FromInt(1))
AvailableH == FSub(SLIDE_HEIGHT_INCHES, Dec(15, 10))

\* Both scaling blocks of the call are behind.
AfterScaling == pc \in {"add_table", "fill_cells", "returned"}

\* The table was added to the slide; it is the last shape.
HasTable == pc \in {"fill_cells", "returned"}
Table == frame.shapes[Len(frame.shapes)]

\* The width and the height asked for: col_width * cols and row_height * rows.
NominalW == FMul(args.col_width, FromInt(frame.cols))
NominalH == FMul(args.row_height, FromInt(frame.rows))

\* The blocks that scaled assigned their scale factor.
ScaledW == "scale_factor" \in DOMAIN frame
ScaledH == "scale_factor_h" \in DOMAIN frame

\* x and y lie in the same binade, at most n units in the last place apart.
UlpsApart(x, y, n) ==
    /\ ~FIsZero(x)
    /\ ~FIsZero(y)
    /\ x.e = y.e
    /\ BCmp(IF BCmp(x.m, y.m) >= 0 THEN BSub(x.m, y.m) ELSE BSub(y.m, x.m),
            BFromInt(n)) <= 0

\* x + y <= z, with the sum taken exactly.
ExactSumLe(x, y, z) ==
    LET es == {v.e : v \in {v \in {x, y, z} : ~FIsZero(v)}} \cup {0}
        e == CHOOSE m \in es : \A o \in es : m <= o
        At(v) == IF FIsZero(v) THEN <<>> ELSE BShl(v.m, v.e - e)
    IN  BCmp(BAdd(At(x), At(y)), At(z)) <= 0

\* The layout a call computes: the frame after both scaling blocks.
Layout(f) ==
    ScaleHeight(ScaleWidth(Position(Title(f))))

(***************************************************************************)
(* C1.  As claimed: after the scaling blocks the total width is at most     *)
(* 13.333 - 1.0 and the total height at most 7.5 - 1.5.                     *)
(***************************************************************************)
C1_Original ==
    AfterScaling =>
        /\ FLe(frame.table_width, AvailableW)
        /\ FLe(frame.table_height, AvailableH)

\* C1, amended: after the scaling blocks the total width is at most 13.333 - 1.0
\* and the total height at most 7.5 - 1.5 up to the rounding of the float
\* operations, that is, above them by at most 3 units in the last place; both stay
\* strictly below the slide's width and height.
C1_WithinAvailableRounded ==
    AfterScaling =>
        /\ FLe(frame.table_width, AvailableW)
               \/ UlpsApart(frame.table_width, AvailableW, 3)
        /\ FLe(frame.table_height, AvailableH)
               \/ UlpsApart(frame.table_height, AvailableH, 3)
        /\ FLt(frame.table_width, SLIDE_WIDTH_INCHES)
        /\ FLt(frame.table_height, SLIDE_HEIGHT_INCHES)

\* A returned call that scaled both axes and whose width came out above 12.333.
C1_Witness ==
    /\ pc = "returned"
    /\ ScaledW
    /\ ScaledH
    /\ FGt(frame.table_width, AvailableW)

(***************************************************************************)
(* C2.  As claimed: at every anchor the program uses, the table lies inside *)
(* the slide: left + table_width <= 13.333 and top + 0.7 + table_height     *)
(* <= 7.5.                                                                 *)
(***************************************************************************)
C2_TableInsideSlide ==
    HasTable =>
        /\ ExactSumLe(Table.left, Table.width, SLIDE_WIDTH_INCHES)
        /\ ExactSumLe(Table.top, Table.height, SLIDE_HEIGHT_INCHES)

(***************************************************************************)
(* C3.  A width that fits is left alone: when col_width * cols is at most   *)
(* the available width, the column width of the frame, and of every column  *)
(* of the table, is the one passed in; and so for the rows.                 *)
(***************************************************************************)
C3_NoShrinkWhenFits ==
    AfterScaling =>
        /\ FLe(NominalW, AvailableW) =>
               /\ frame.col_width = args.col_width
               /\ frame.table_width = NominalW
               /\ HasTable => \A c \in 1..frame.cols : Table.columns[c] = args.col_width
        /\ FLe(NominalH, AvailableH) =>
               /\ frame.row_height = args.row_height
               /\ frame.table_height = NominalH
               /\ HasTable =>
                      \A r \in 1..frame.rows : Table.row_heights[r] = args.row_height

\* A returned call with columns whose width fits, while its height was scaled.
C3_Witness ==
    /\ pc = "returned"
    /\ frame.cols > 0
    /\ FLe(NominalW, AvailableW)
    /\ ScaledH
    /\ Table.columns[1] = args.col_width

(***************************************************************************)
(* C4.  As claimed: when col_width * cols exceeds the available width, the  *)
(* total width comes out as the available width exactly, and the column     *)
(* width as col_width * (available / nominal), below col_width and above 0. *)
(***************************************************************************)
C4_Original ==
    (AfterScaling /\ FGt(NominalW, AvailableW)) =>
        /\ frame.table_width = AvailableW
        /\ frame.col_width = FMul(args.col_width, FDiv(AvailableW, NominalW))
        /\ FLt(frame.col_width, args.col_width)
        /\ FGt(frame.col_width, FZero)

\* C4, amended: when col_width * cols exceeds the available width, the total
\* width comes out within 3 units in the last place of the available width (not
\* always the available width itself), and the column width is the float
\* col_width * (available / nominal), below col_width and above 0.
C4_ScaledToAvailableRounded ==
    (AfterScaling /\ FGt(NominalW, AvailableW)) =>
        /\ UlpsApart(frame.table_width, AvailableW, 3)
        /\ frame.col_width = FMul(args.col_width, FDiv(AvailableW, NominalW))
        /\ FLt(frame.col_width, args.col_width)
        /\ FGt(frame.col_width, FZero)

\* A returned call whose width overflowed and came out beside the available width.
C4_Witness ==
    /\ pc = "returned"
    /\ FGt(NominalW, AvailableW)
    /\ ScaledW
    /\ frame.table_width # AvailableW

(***************************************************************************)
(* C5.  The axes are independent: the row height and total height of a call *)
(* are those of the call that differs from it in cols and col_width only    *)
(* (here: no column, the default col_width), and its column width and total *)
(* width those of the call that differs in rows and row_height only (here:  *)
(* one row, the default row_height).  Two calls that differ in one axis     *)
(* only share that baseline, so they agree on the other axis.               *)
(***************************************************************************)
WidthBaseline(f) ==
    [f EXCEPT !.table_data = [r \in 1..Len(f.table_data) |-> <<>>],
              !.col_width = DefaultColWidth]

HeightBaseline(f) ==
    [f EXCEPT !.table_data = <<[c \in 1..frame.cols |-> ""]>>,
              !.row_height = DefaultRowHeight]

C5_AxesIndependent ==
    pc = "returned" =>
        /\ LET b == Layout(WidthBaseline(args))
           IN  /\ b.row_height = frame.row_height
               /\ b.table_height = frame.table_height
        /\ LET b == Layout(HeightBaseline(args))
           IN  /\ b.col_width = frame.col_width
               /\ b.table_width = frame.table_width

\* A returned call whose width overflowed and whose height did not.
C5_Witness ==
    /\ pc = "returned"
    /\ ScaledW
    /\ ~ScaledH
    /\ frame.rows > 0

(***************************************************************************)
(* C6.  As claimed: with rows = 0 or cols = 0 the call raises nothing, and  *)
(* its total width and its total height are both 0, at the anchor.          *)
(***************************************************************************)
\* cols = 0: table_data is empty or all its rows are.
NoColumns == \A r \in 1..Len(args.table_data) : Len(args.table_data[r]) = 0

C6_Original ==
    (ret = "none" /\ NoColumns) =>
        /\ pc # "raised"
        /\ AfterScaling =>
               /\ FIsZero(frame.table_width)
               /\ FIsZero(frame.table_height)
               /\ frame.table_left = args.left
               /\ frame.table_top = FAdd(args.top, Dec(7, 10))

\* C6, amended: with cols = 0 (rows = 0 included) the call raises nothing and
\* its total width is 0, at the anchor; its total height is 0 when rows = 0, and
\* with rows > 0 it is row_height * rows, shrunk if that overflows, not 0.
C6_ZeroWidthNoError ==
    (ret = "none" /\ NoColumns) =>
        /\ pc # "raised"
        /\ AfterScaling =>
               /\ frame.cols = 0
               /\ FIsZero(frame.table_width)
               /\ frame.rows = 0 => FIsZero(frame.table_height)
               /\ frame.rows > 0 => FGt(frame.table_height, FZero)
               /\ frame.table_left = args.left
               /\ frame.table_top = FAdd(args.top, Dec(7, 10))

\* A returned call on rows that are all empty.
C6_Witness ==
    /\ pc = "returned"
    /\ ret = "none"
    /\ NoColumns
    /\ frame.rows > 0
    /\ FIsZero(frame.table_width)

(***************************************************************************)
(* C7.  From the block that places the table on, the grid's top is the      *)
(* anchor's top + 0.7 and its left the anchor's left, the anchor is the one *)
(* passed in, and the table is added there, whether or not an axis scaled.  *)
(***************************************************************************)
C7_GridAtAnchor ==
    pc \in {"scale_width", "scale_height", "add_table", "fill_cells", "returned"} =>
        /\ frame.top = args.top
        /\ frame.left = args.left
        /\ frame.table_top = FAdd(args.top, Dec(7, 10))
        /\ frame.table_left = args.left
        /\ HasTable =>
               /\ Table.top = FAdd(args.top, Dec(7, 10))
               /\ Table.left = args.left

\* A returned call that scaled both axes.
C7_Witness ==
    /\ pc = "returned"
    /\ ScaledW
    /\ ScaledH
    /\ Table.top = FAdd(args.top, Dec(7, 10))

(***************************************************************************)
(* C8.  As claimed: a label that is not empty and that the mapping does not *)
(* hold is looked up as <<"", "">>, and the smaller line of its cell is     *)
(* " | ".                                                                  *)
(***************************************************************************)
C8_AbsentLabelLine ==
    pc = "returned" =>
        \A r \in 1..Len(args.table_data) : \A c \in 1..Len(args.table_data[r]) :
            LET char == args.table_data[r][c]
            IN  (char # "" /\ char \notin DOMAIN romaji_tamil_map) =>
                    /\ Get(romaji_tamil_map, char, <<"", "">>) = <<"", "">>
                    /\ Len(Table.cells[r][c]) = 2
                    /\ Table.cells[r][c][2].text = " | "

(***************************************************************************)
(* C9.  The smaller line of a focus slide, in both loops, is the one any    *)
(* run would show whose mapping differs from this run's in katakana entries *)
(* only.                                                                   *)
(***************************************************************************)
\* m1 and m2 differ in the entries of katakana labels only.
DifferInKatakanaOnly(m1, m2) ==
    \A c \in (DOMAIN m1 \cup DOMAIN m2) \ KatakanaLabels :
        /\ c \in DOMAIN m1
        /\ c \in DOMAIN m2
        /\ m1[c] = m2[c]

\* A focus slide was just added: it is the last slide, of character i - 1.
FocusAdded == pc \in {"gojuon_focus", "dakuten_focus"} /\ i > 1

C9_FocusLineIgnoresKatakana ==
    FocusAdded =>
        LET se == IF pc = "gojuon_focus" THEN GOJUON_SERIES[series]
                  ELSE DAKUTEN_SERIES[series]
            h == se.hira_list[i - 1]
            k == se.kata_list[i - 1]
            shown == prs[Len(prs)][2].text
        IN  \A m2 \in MapVariants :
                DifferInKatakanaOnly(romaji_tamil_map, m2) =>
                    shown = (IF pc = "gojuon_focus"
                             THEN GojuonFocusSlide(m2, h, k)
                             ELSE DakutenFocusSlide(m2, h, k))[2].text

\* A focus slide of the second loop, under a mapping whose katakana entry for
\* the slide's character is not the source's.
C9_Witness ==
    /\ pc = "dakuten_focus"
    /\ i > 1
    /\ LET k == DAKUTEN_SERIES[series].kata_list[i - 1]
       IN  /\ k \in DOMAIN romaji_tamil_map
           /\ romaji_tamil_map[k] # ROMAJI_TAMIL_MAP[k]
    /\ \E m2 \in MapVariants :
           m2 # romaji_tamil_map /\ DifferInKatakanaOnly(romaji_tamil_map, m2)

(***************************************************************************)
(* C10.  The slides come in the fixed order: the four tables, then for each *)
(* series of GOJUON_SERIES and then of DAKUTEN_SERIES its overview and the  *)
(* focus slides of its characters, hira_list[i] beside kata_list[i]; main   *)
(* raises nothing and saves once, with all 90 slides in.                    *)
(***************************************************************************)
RECURSIVE SeriesDeck(_, _)
\* The slides of the series list from its n-th series on.
SeriesDeck(list, n) ==
    IF n > Len(list) THEN <<>>
    ELSE <<[kind |-> "overview", key |-> list[n].series_name]>>
         \o [j \in 1..Len(list[n].hira_list) |->
                [kind |-> "focus",
                 key |-> list[n].hira_list[j] \o "    " \o list[n].kata_list[j]]]
         \o SeriesDeck(list, n + 1)

ExpectedDeck ==
    << [kind |-> "table", key |-> "Hiragana (U3072U3089U304CU306A) Overview"],
       [kind |-> "table", key |-> "Katakana (U30ABU30BFU30ABU30CA) Overview"],
       [kind |-> "table", key |-> "Hiragana Dakuten/Handakuten"],
       [kind |-> "table", key |-> "Katakana Dakuten/Handakuten"] >>
    \o SeriesDeck(GOJUON_SERIES, 1) \o SeriesDeck(DAKUTEN_SERIES, 1)

\* The slide is the expected one; a table slide is blank while its call runs.
SlideIs(slide, e, last) ==
    IF slide = <<>>
    THEN e.kind = "table" /\ last /\ ret # "none"
    ELSE /\ slide[1].text = e.key
         /\ CASE e.kind = "table" ->
                     Len(slide) >= 2 /\ slide[2].type = "table"
              [] e.kind = "overview" ->
                     Len(slide) = 2 /\ slide[1].font_size = 60
              [] OTHER ->
                     Len(slide) = 2 /\ slide[1].font_size = 120

C10_SlideOrder ==
    /\ pc # "raised"
    /\ Len(prs) <= Len(ExpectedDeck)
    /\ \A n \in 1..Len(prs) : SlideIs(prs[n], ExpectedDeck[n], n = Len(prs))
    /\ saved = (IF pc = "done" THEN 1 ELSE 0)
    /\ pc \in {"save", "done"} => (Len(prs) = 90 /\ prs[90] # <<>>)

\* main is over: saved, with the last slide the focus slide of the last character
\* of the last series.
C10_Witness ==
    /\ pc = "done"
    /\ saved = 1
    /\ Len(prs) = 90
    /\ prs[90][1].text = "U307D    U30DD"
====
